---- MODULE Spec2Model ----
(***************************************************************************)
(* Cache admission / retention policy of the moq relay.                    *)
(*                                                                         *)
(*   rs/moq-lite/src/cache_policy.rs                CacheDecision,         *)
(*                                                  AlwaysCachePolicy,     *)
(*                                                  NeverCachePolicy       *)
(*   rs/moq-lite/src/cache_policy/pattern_based.rs  PatternBasedCachePolicy*)
(*   rs/moq-relay/src/cache_policy.rs               CachePolicyConfig      *)
(*                                                                         *)
(* A string is a sequence of one-character strings: "a/**" is written      *)
(* <<"a", "/", "*", "*">>.  An Option<u64> is a sequence of length 0       *)
(* (None) or 1 (Some(n)).  A Result is a record with an ok field.          *)
(***************************************************************************)
EXTENDS Integers, Sequences, FiniteSets, TLC

VARIABLES cfg, pc, built, last

vars == <<cfg, pc, built, last>>

-----------------------------------------------------------------------------
(* Bounds of the model.                                                    *)

\* longest broadcast path that is queried
MaxPathLen == 3
\* most pattern strings in a configuration, include and exclude together
MaxPatterns == 3
\* largest value of a threshold; queried values range one beyond it
MaxLimit == 1

-----------------------------------------------------------------------------
(* CacheDecision (cache_policy.rs 9-20).                                   *)

Cache == "Cache"
NoCache == "NoCache"

should_cache(d) == d = Cache

-----------------------------------------------------------------------------
(* glob::Pattern, the pattern type the policy holds (pattern_based.rs 1).  *)
(* The crate is a dependency and not part of the repository; Pattern::new  *)
(* and Pattern::matches are modelled after the glob dialect the           *)
(* specification names ('*', '**', '?', character classes), with the       *)
(* default MatchOptions that Pattern::matches uses.                        *)

is_separator(c) == c = "/"

PatOk(tokens) == [ok |-> TRUE, tokens |-> tokens]
PatErr == [ok |-> FALSE]

\* offset of the first character at or after offset i that is not '*'
RECURSIVE StarEnd(_, _)
StarEnd(chars, i) ==
    IF i < Len(chars) /\ chars[i + 1] = "*" THEN StarEnd(chars, i + 1) ELSE i

\* least j >= 0 with chars[from + j] = ']' (offsets from 0), or -1
RECURSIVE ClosePos(_, _, _)
ClosePos(chars, from, j) ==
    IF from + j >= Len(chars) THEN -1
    ELSE IF chars[from + j + 1] = "]" THEN j
    ELSE ClosePos(chars, from, j + 1)

\* the characters of a class body; the alphabet has no '-', so no ranges
parse_char_specifiers(chars, first, lastIdx) ==
    {chars[k + 1] : k \in first .. lastIdx}

\* Pattern::new: i is the offset (from 0) of the next character
RECURSIVE Tokenize(_, _, _)
Tokenize(chars, i, tokens) ==
    IF i >= Len(chars) THEN PatOk(tokens)
    ELSE LET c == chars[i + 1] IN
      CASE c = "?" -> Tokenize(chars, i + 1, Append(tokens, [t |-> "AnyChar"]))
        [] c = "*" ->
            LET old == i
                e == StarEnd(chars, i)
                count == e - old
                n == Len(tokens)
                pushed == IF ~(n > 1 /\ tokens[n].t = "AnyRecursiveSequence")
                          THEN Append(tokens, [t |-> "AnyRecursiveSequence"])
                          ELSE tokens
            IN  IF count > 2 THEN PatErr
                ELSE IF count = 2 THEN
                    IF e = 2 \/ is_separator(chars[e - count])
                    THEN IF e < Len(chars) /\ is_separator(chars[e + 1])
                         THEN Tokenize(chars, e + 1, pushed)
                         ELSE IF e = Len(chars)
                         THEN Tokenize(chars, e, pushed)
                         ELSE PatErr
                    ELSE PatErr
                ELSE Tokenize(chars, e, Append(tokens, [t |-> "AnySequence"]))
        [] c = "[" ->
            IF i + 3 <= Len(chars) /\ chars[i + 2] # "!"
               /\ ClosePos(chars, i + 2, 0) >= 0
            THEN LET j == ClosePos(chars, i + 2, 0)
                     cs == parse_char_specifiers(chars, i + 1, i + 1 + j)
                 IN  Tokenize(chars, i + j + 3,
                              Append(tokens, [t |-> "AnyWithin", cs |-> cs]))
            ELSE PatErr
        [] OTHER -> Tokenize(chars, i + 1, Append(tokens, [t |-> "Char", c |-> c]))

Pattern_new(p) == Tokenize(p, 0, <<>>)

Match == "Match"
SubPatternDoesntMatch == "SubPatternDoesntMatch"
EntirePatternDoesntMatch == "EntirePatternDoesntMatch"

\* Pattern::matches_from: file is what is left of the path, i the token index
RECURSIVE matches_from(_, _, _, _)
RECURSIVE wildcard_loop(_, _, _, _)
matches_from(tokens, follows_separator, file, i) ==
    IF i > Len(tokens)
    THEN IF file = <<>> THEN Match ELSE SubPatternDoesntMatch
    ELSE LET token == tokens[i] IN
      IF token.t \in {"AnySequence", "AnyRecursiveSequence"}
      THEN LET empty == matches_from(tokens, follows_separator, file, i + 1)
           IN  IF empty # SubPatternDoesntMatch THEN empty
               ELSE wildcard_loop(tokens, follows_separator, file, i)
      ELSE IF file = <<>> THEN EntirePatternDoesntMatch
      ELSE LET c == Head(file)
               hit == CASE token.t = "AnyChar" -> TRUE
                        [] token.t = "AnyWithin" -> c \in token.cs
                        [] OTHER -> c = token.c
           IN  IF ~hit THEN SubPatternDoesntMatch
               ELSE matches_from(tokens, is_separator(c), Tail(file), i + 1)

\* the loop of a wildcard token: give it one more character at a time
wildcard_loop(tokens, follows_separator, file, i) ==
    IF file = <<>> THEN matches_from(tokens, follows_separator, file, i + 1)
    ELSE LET c == Head(file)
             sep == is_separator(c)
         IN  IF tokens[i].t = "AnyRecursiveSequence" /\ ~sep
             THEN wildcard_loop(tokens, sep, Tail(file), i)
             ELSE LET m == matches_from(tokens, sep, Tail(file), i + 1)
                  IN  IF m # SubPatternDoesntMatch THEN m
                      ELSE wildcard_loop(tokens, sep, Tail(file), i)

Pattern_matches(pattern, path) == matches_from(pattern, TRUE, path, 1) = Match

-----------------------------------------------------------------------------
(* PatternBasedCachePolicy (pattern_based.rs).                             *)

\* Default::default / new
PatternBasedCachePolicy_new ==
    [kind |-> "pattern",
     cache_patterns |-> <<Pattern_new(<<"*", "*">>).tokens>>,
     exclude_patterns |-> <<>>,
     min_track_priority |-> 0,
     backup_max_age_seconds |-> 0,
     backup_max_count |-> 0,
     max_groups_per_track |-> 1,
     max_frames_per_group |-> 0,
     max_frame_size_bytes |-> 0]

\* patterns.into_iter().map(Pattern::new).collect::<Result<Vec<_>, _>>()
RECURSIVE collect_patterns(_)
collect_patterns(patterns) ==
    IF patterns = <<>> THEN [ok |-> TRUE, val |-> <<>>]
    ELSE LET p == Pattern_new(Head(patterns)) IN
         IF ~p.ok THEN [ok |-> FALSE]
         ELSE LET rest == collect_patterns(Tail(patterns)) IN
              IF ~rest.ok THEN [ok |-> FALSE]
              ELSE [ok |-> TRUE, val |-> <<p.tokens>> \o rest.val]

with_cache_patterns(self, patterns) ==
    LET r == collect_patterns(patterns) IN
    IF r.ok THEN [ok |-> TRUE, val |-> [self EXCEPT !.cache_patterns = r.val]]
    ELSE [ok |-> FALSE]

\* variant: a pattern that does not compile is dropped instead of reported
RECURSIVE collect_valid_patterns(_)
collect_valid_patterns(patterns) ==
    IF patterns = <<>> THEN <<>>
    ELSE LET p == Pattern_new(Head(patterns)) IN
         (IF p.ok THEN <<p.tokens>> ELSE <<>>) \o collect_valid_patterns(Tail(patterns))

with_exclude_patterns_SkipInvalid(self, patterns) ==
    [ok |-> TRUE,
     val |-> [self EXCEPT !.exclude_patterns = collect_valid_patterns(patterns)]]

with_exclude_patterns(self, patterns) ==
    LET r == collect_patterns(patterns) IN
    IF r.ok THEN [ok |-> TRUE, val |-> [self EXCEPT !.exclude_patterns = r.val]]
    ELSE [ok |-> FALSE]

with_min_track_priority(self, priority) == [self EXCEPT !.min_track_priority = priority]
with_backup_max_age(self, seconds) == [self EXCEPT !.backup_max_age_seconds = seconds]
with_backup_max_count(self, count) == [self EXCEPT !.backup_max_count = count]
with_max_groups_per_track(self, max) == [self EXCEPT !.max_groups_per_track = max]
with_max_frames_per_group(self, max) == [self EXCEPT !.max_frames_per_group = max]
with_max_frame_size(self, bytes) == [self EXCEPT !.max_frame_size_bytes = bytes]

\* variant: only the first pattern of the list is tried
matches_patterns_FirstOnly(path, patterns) ==
    IF patterns = <<>> THEN FALSE
    ELSE Pattern_matches(Head(patterns), path)

\* patterns.iter().any(|p| p.matches(path)): left to right, stops at a match
RECURSIVE matches_patterns(_, _)
matches_patterns(path, patterns) ==
    IF patterns = <<>> THEN FALSE
    ELSE IF Pattern_matches(Head(patterns), path) THEN TRUE
    ELSE matches_patterns(path, Tail(patterns))

Pattern_should_cache_broadcast(self, path) ==
    IF self.exclude_patterns # <<>> /\ matches_patterns(path, self.exclude_patterns)
    THEN NoCache
    ELSE IF matches_patterns(path, self.cache_patterns) THEN Cache
    ELSE NoCache

\* variant: the priority bound is exclusive
Pattern_should_cache_track_StrictPriority(self, broadcast_path, track_name, priority) ==
    IF ~should_cache(Pattern_should_cache_broadcast(self, broadcast_path))
    THEN NoCache
    ELSE IF priority > self.min_track_priority THEN Cache
    ELSE NoCache

\* variant: the broadcast decision is not consulted
Pattern_should_cache_track_NoBroadcastCheck(self, broadcast_path, track_name, priority) ==
    IF priority >= self.min_track_priority THEN Cache ELSE NoCache

Pattern_should_cache_track(self, broadcast_path, track_name, priority) ==
    IF ~should_cache(Pattern_should_cache_broadcast(self, broadcast_path))
    THEN NoCache
    ELSE IF priority >= self.min_track_priority THEN Cache
    ELSE NoCache

\* variant: a configured frame-count limit rejects the group
Pattern_should_cache_group_FrameCount(self, sequence, estimated_size) ==
    IF self.max_frames_per_group > 0 THEN NoCache
    ELSE IF estimated_size # <<>>
            /\ self.max_frame_size_bytes > 0
            /\ estimated_size[1] > self.max_frame_size_bytes
    THEN NoCache
    ELSE Cache

Pattern_should_cache_group(self, sequence, estimated_size) ==
    IF estimated_size # <<>>
       /\ self.max_frame_size_bytes > 0
       /\ estimated_size[1] > self.max_frame_size_bytes
    THEN NoCache
    ELSE Cache

\* variant: a frame exactly at the limit is rejected
Pattern_should_cache_frame_Inclusive(self, frame_size) ==
    IF self.max_frame_size_bytes > 0 /\ frame_size >= self.max_frame_size_bytes
    THEN NoCache
    ELSE Cache

Pattern_should_cache_frame(self, frame_size) ==
    IF self.max_frame_size_bytes > 0 /\ frame_size > self.max_frame_size_bytes
    THEN NoCache
    ELSE Cache

\* variant: a backup exactly at the age limit is kept
Pattern_should_keep_backup_StrictAge(self, age_seconds, backup_count) ==
    IF self.backup_max_age_seconds > 0 /\ age_seconds > self.backup_max_age_seconds
    THEN FALSE
    ELSE IF self.backup_max_count > 0 /\ backup_count > self.backup_max_count
    THEN FALSE
    ELSE TRUE

Pattern_should_keep_backup(self, age_seconds, backup_count) ==
    IF self.backup_max_age_seconds > 0 /\ age_seconds >= self.backup_max_age_seconds
    THEN FALSE
    ELSE IF self.backup_max_count > 0 /\ backup_count > self.backup_max_count
    THEN FALSE
    ELSE TRUE

-----------------------------------------------------------------------------
(* AlwaysCachePolicy and NeverCachePolicy (cache_policy.rs 40-90).         *)

AlwaysCachePolicy == [kind |-> "always"]
NeverCachePolicy == [kind |-> "never"]

Always_should_cache_broadcast(path) == Cache
Always_should_cache_track(broadcast_path, track_name, priority) == Cache
Always_should_cache_group(sequence, estimated_size) == Cache
Always_should_cache_frame(frame_size) == Cache
Always_should_keep_backup(age_seconds, backup_count) == TRUE

Never_should_cache_broadcast(path) == NoCache
Never_should_cache_track(broadcast_path, track_name, priority) == NoCache
Never_should_cache_group(sequence, estimated_size) == NoCache
Never_should_cache_frame(frame_size) == NoCache
\* variant: the never-cache variant keeps backups
Never_should_keep_backup_Keeps(age_seconds, backup_count) == TRUE

Never_should_keep_backup(age_seconds, backup_count) == FALSE

-----------------------------------------------------------------------------
(* trait CachePolicy (cache_policy.rs 23-38): a call through               *)
(* Arc<dyn CachePolicy> runs the method of the variant behind it.          *)

should_cache_broadcast(policy, path) ==
    CASE policy.kind = "always" -> Always_should_cache_broadcast(path)
      [] policy.kind = "never" -> Never_should_cache_broadcast(path)
      [] OTHER -> Pattern_should_cache_broadcast(policy, path)

should_cache_track(policy, broadcast_path, track_name, priority) ==
    CASE policy.kind = "always" ->
            Always_should_cache_track(broadcast_path, track_name, priority)
      [] policy.kind = "never" ->
            Never_should_cache_track(broadcast_path, track_name, priority)
      [] OTHER ->
            Pattern_should_cache_track(policy, broadcast_path, track_name, priority)

should_cache_group(policy, sequence, estimated_size) ==
    CASE policy.kind = "always" -> Always_should_cache_group(sequence, estimated_size)
      [] policy.kind = "never" -> Never_should_cache_group(sequence, estimated_size)
      [] OTHER -> Pattern_should_cache_group(policy, sequence, estimated_size)

should_cache_frame(policy, frame_size) ==
    CASE policy.kind = "always" -> Always_should_cache_frame(frame_size)
      [] policy.kind = "never" -> Never_should_cache_frame(frame_size)
      [] OTHER -> Pattern_should_cache_frame(policy, frame_size)

should_keep_backup(policy, age_seconds, backup_count) ==
    CASE policy.kind = "always" -> Always_should_keep_backup(age_seconds, backup_count)
      [] policy.kind = "never" -> Never_should_keep_backup(age_seconds, backup_count)
      [] OTHER -> Pattern_should_keep_backup(policy, age_seconds, backup_count)

-----------------------------------------------------------------------------
(* CachePolicyConfig (moq-relay cache_policy.rs).                          *)

\* the branch of build that constructs the pattern-based variant (166-177)
build_pattern_based(config) ==
    LET r1 == with_cache_patterns(PatternBasedCachePolicy_new,
                                  config.broadcast.cache_patterns)
    IN  IF ~r1.ok THEN [ok |-> FALSE]
        ELSE LET r2 == with_exclude_patterns(r1.val, config.broadcast.exclude_patterns)
             IN  IF ~r2.ok THEN [ok |-> FALSE]
                 ELSE [ok |-> TRUE,
                       policy |->
                         with_max_frame_size(
                           with_max_frames_per_group(
                             with_max_groups_per_track(
                               with_backup_max_count(
                                 with_backup_max_age(
                                   with_min_track_priority(r2.val,
                                     config.track.min_priority),
                                   config.broadcast.backup_max_age_seconds),
                                 config.broadcast.backup_max_count),
                               config.group.max_groups_per_track),
                             config.group.max_frames_per_group),
                           config.limits.max_frame_size_bytes)]

\* variant: the shortcut compares the include list with ["*"]
build_SingleStar(config) ==
    IF ~config.cache_enabled THEN [ok |-> TRUE, policy |-> NeverCachePolicy]
    ELSE IF /\ config.broadcast.cache_patterns = << <<"*">> >>
            /\ config.broadcast.exclude_patterns = <<>>
            /\ config.track.min_priority = 0
            /\ config.broadcast.backup_max_age_seconds = 0
            /\ config.broadcast.backup_max_count = 0
            /\ config.limits.max_frame_size_bytes = 0
    THEN [ok |-> TRUE, policy |-> AlwaysCachePolicy]
    ELSE build_pattern_based(config)

\* variant: the patterns are compiled before the enable flag is looked at
build_CompileFirst(config) ==
    IF ~build_pattern_based(config).ok THEN [ok |-> FALSE]
    ELSE IF ~config.cache_enabled THEN [ok |-> TRUE, policy |-> NeverCachePolicy]
    ELSE IF /\ config.broadcast.cache_patterns = << <<"*", "*">> >>
            /\ config.broadcast.exclude_patterns = <<>>
            /\ config.track.min_priority = 0
            /\ config.broadcast.backup_max_age_seconds = 0
            /\ config.broadcast.backup_max_count = 0
            /\ config.limits.max_frame_size_bytes = 0
    THEN [ok |-> TRUE, policy |-> AlwaysCachePolicy]
    ELSE build_pattern_based(config)

build(config) ==
    IF ~config.cache_enabled THEN [ok |-> TRUE, policy |-> NeverCachePolicy]
    ELSE IF /\ config.broadcast.cache_patterns = << <<"*", "*">> >>
            /\ config.broadcast.exclude_patterns = <<>>
            /\ config.track.min_priority = 0
            /\ config.broadcast.backup_max_age_seconds = 0
            /\ config.broadcast.backup_max_count = 0
            /\ config.limits.max_frame_size_bytes = 0
    THEN [ok |-> TRUE, policy |-> AlwaysCachePolicy]
    ELSE build_pattern_based(config)

-----------------------------------------------------------------------------
(* Inputs: the configurations a loader can hand to build, and the          *)
(* arguments a cache manager can pass to the queries.                      *)

\* all sequences over S of length at most n
SeqsUpTo(S, n) == UNION {[1 .. k -> S] : k \in 0 .. n}

PathChars == {"a", "/"}
Paths == SeqsUpTo(PathChars, MaxPathLen)
TrackNames == {"video", "audio"}
Values == 0 .. MaxLimit + 1
Limits == 0 .. MaxLimit
OptionalSizes == {<<>>} \cup {<<n>> : n \in Values}

MatchAll == <<"*", "*">>
\* "**", "a/**", "*/?" and "[a]*" compile; "a**" does not, nor does "[a"
PatternStrings ==
    {MatchAll,
     <<"a", "/", "*", "*">>,
     <<"*", "/", "?">>,
     <<"[", "a", "]", "*">>,
     <<"a", "*", "*">>}

\* an include list and an exclude list of at most MaxPatterns strings in all
PatternLists ==
    UNION {{<<inc, exc>> : inc \in [1 .. k -> PatternStrings],
                           exc \in SeqsUpTo(PatternStrings, MaxPatterns - k)} :
           k \in 0 .. MaxPatterns}

\* arguments in the order of the fields: enabled, include, exclude, age, count,
\* tracks, priority, groups, frames, cache size, broadcast size, frame size
Config(en, inc, exc, age, cnt, trk, pri, grp, frm, csz, bsz, fsz) ==
    [cache_enabled |-> en,
     broadcast |-> [cache_patterns |-> inc,
                    exclude_patterns |-> exc,
                    backup_max_age_seconds |-> age,
                    backup_max_count |-> cnt],
     track |-> [max_tracks_per_broadcast |-> trk, min_priority |-> pri],
     group |-> [max_groups_per_track |-> grp, max_frames_per_group |-> frm],
     limits |-> [max_cache_size_bytes |-> csz,
                 max_broadcast_size_bytes |-> bsz,
                 max_frame_size_bytes |-> fsz]]

\* CachePolicyConfig::default (31-41, 66-75, 90-97, 112-119, 138-146)
CachePolicyConfig_default ==
    Config(TRUE, <<MatchAll>>, <<>>, 0, 0, 0, 0, 1, 0, 0, 0, 0)

\* configurations that differ from the default in the flag and the patterns
PatternConfigs ==
    {Config(en, pl[1], pl[2], 0, 0, 0, 0, 1, 0, 0, 0, 0) :
        en \in BOOLEAN, pl \in PatternLists}

\* configurations that differ from the default in the flag and the numbers
LimitConfigs ==
    {Config(en, inc, exc, age, count, un, pr, gr, fr, un, un, size) :
        en \in BOOLEAN,
        inc \in {<<MatchAll>>, <<<<"a", "/", "*", "*">>>>},
        exc \in {<<>>, <<<<"*", "/", "?">>>>, <<<<"[", "a">>>>},
        age \in Limits, count \in Limits, pr \in Limits, size \in Limits,
        gr \in 0 .. 1, fr \in 0 .. 1, un \in 0 .. 1}

-----------------------------------------------------------------------------
(* The relay builds one policy at startup and then queries it.             *)

NoQuery == [op |-> "none"]
NotBuilt == [ok |-> FALSE]

Init ==
    /\ cfg \in PatternConfigs \cup LimitConfigs
    /\ pc = "config"
    /\ built = NotBuilt
    /\ last = NoQuery

\* config.build(): Ok(policy) or the pattern error
Build ==
    /\ pc = "config"
    /\ built' = build(cfg)
    /\ pc' = IF built'.ok THEN "ready" ELSE "failed"
    /\ UNCHANGED <<cfg, last>>

ShouldCacheBroadcast ==
    /\ pc = "ready"
    /\ \E path \in Paths :
          last' = [op |-> "broadcast", path |-> path,
                   result |-> should_cache_broadcast(built.policy, path)]
    /\ pc' = "answered"
    /\ UNCHANGED <<cfg, built>>

ShouldCacheTrack ==
    /\ pc = "ready"
    /\ \E path \in Paths, name \in TrackNames, priority \in Values :
          last' = [op |-> "track", path |-> path, track_name |-> name,
                   priority |-> priority,
                   result |-> should_cache_track(built.policy, path, name, priority)]
    /\ pc' = "answered"
    /\ UNCHANGED <<cfg, built>>

ShouldCacheGroup ==
    /\ pc = "ready"
    /\ \E sequence \in 0 .. 1, size \in OptionalSizes :
          last' = [op |-> "group", sequence |-> sequence, estimated_size |-> size,
                   result |-> should_cache_group(built.policy, sequence, size)]
    /\ pc' = "answered"
    /\ UNCHANGED <<cfg, built>>

ShouldCacheFrame ==
    /\ pc = "ready"
    /\ \E size \in Values :
          last' = [op |-> "frame", frame_size |-> size,
                   result |-> should_cache_frame(built.policy, size)]
    /\ pc' = "answered"
    /\ UNCHANGED <<cfg, built>>

ShouldKeepBackup ==
    /\ pc = "ready"
    /\ \E age \in Values, count \in Values :
          last' = [op |-> "backup", age_seconds |-> age, backup_count |-> count,
                   result |-> should_keep_backup(built.policy, age, count)]
    /\ pc' = "answered"
    /\ UNCHANGED <<cfg, built>>

\* the caller takes the answer; the policy is ready for the next query
Return ==
    /\ pc = "answered"
    /\ pc' = "ready"
    /\ last' = NoQuery
    /\ UNCHANGED <<cfg, built>>

Next ==
    \/ Build
    \/ ShouldCacheBroadcast
    \/ ShouldCacheTrack
    \/ ShouldCacheGroup
    \/ ShouldCacheFrame
    \/ ShouldKeepBackup
    \/ Return

Spec == Init /\ [][Next]_vars

TypeOK ==
    /\ pc \in {"config", "ready", "answered", "failed"}
    /\ (pc = "answered") <=> (last.op # "none")

-----------------------------------------------------------------------------
(* Properties.                                                             *)

Answered(op) == pc = "answered" /\ last.op = op
IsPattern == built.ok /\ built.policy.kind = "pattern"
MatchesAny(path, patterns) ==
    \E i \in DOMAIN patterns : Pattern_matches(patterns[i], path)
Reverse(seq) == [i \in 1 .. Len(seq) |-> seq[Len(seq) + 1 - i]]

\* C1: a pattern-based policy answers a broadcast query with NoCache when the
\* exclude set is non-empty and some exclude pattern matches the path, whatever
\* the include set says; otherwise with Cache iff some include pattern matches;
\* the order of the patterns within a set does not change the answer.
C1_BroadcastDecision ==
    (Answered("broadcast") /\ IsPattern) =>
        LET self == built.policy
            excluded == self.exclude_patterns # <<>>
                        /\ MatchesAny(last.path, self.exclude_patterns)
            included == MatchesAny(last.path, self.cache_patterns)
            reordered == [self EXCEPT
                            !.cache_patterns = Reverse(self.cache_patterns),
                            !.exclude_patterns = Reverse(self.exclude_patterns)]
        IN  /\ last.result = IF excluded THEN NoCache
                             ELSE IF included THEN Cache ELSE NoCache
            /\ last.result = Pattern_should_cache_broadcast(reordered, last.path)

\* the path matches an include pattern and only the second exclude pattern
C1_Witness ==
    /\ Answered("broadcast") /\ IsPattern
    /\ Len(built.policy.exclude_patterns) = 2
    /\ ~Pattern_matches(built.policy.exclude_patterns[1], last.path)
    /\ Pattern_matches(built.policy.exclude_patterns[2], last.path)
    /\ MatchesAny(last.path, built.policy.cache_patterns)
    /\ last.result = NoCache

\* C2: a pattern-based policy answers a track query with Cache iff the
\* broadcast decision for the path is Cache and priority >= min_track_priority
\* (equality caches); the track name plays no part.
C2_TrackDecision ==
    (Answered("track") /\ IsPattern) =>
        /\ last.result \in {Cache, NoCache}
        /\ last.result = Cache <=>
              /\ should_cache_broadcast(built.policy, last.path) = Cache
              /\ last.priority >= built.policy.min_track_priority
        /\ \A name \in TrackNames :
              should_cache_track(built.policy, last.path, name, last.priority)
                  = last.result

\* a track of a cached broadcast whose priority equals a non-zero minimum
C2_Witness ==
    /\ Answered("track") /\ IsPattern
    /\ built.policy.min_track_priority > 0
    /\ last.priority = built.policy.min_track_priority
    /\ last.result = Cache

\* the broadcasts an answered query's item can belong to: the path of a track
\* query; any broadcast for a group or frame query, which names none
Owners == IF last.op = "track" THEN {last.path} ELSE Paths

\* C3 as stated: no track, group or frame query answers Cache for an item of a
\* broadcast whose decision is NoCache.
C3_Original ==
    (pc = "answered" /\ last.op \in {"track", "group", "frame"}) =>
        \A p \in Owners :
            should_cache_broadcast(built.policy, p) = NoCache
                => last.result # Cache

\* C3: for every policy a track query never answers Cache when the decision for
\* its broadcast is NoCache; for the always-cache and never-cache variants the
\* same holds of group and frame queries.
C3_Containment ==
    (pc = "answered" /\ last.op \in {"track", "group", "frame"}
        /\ (last.op = "track" \/ built.policy.kind # "pattern")) =>
        \A p \in Owners :
            should_cache_broadcast(built.policy, p) = NoCache
                => last.result = NoCache

\* a track of sufficient priority in a broadcast the patterns reject
C3_Witness ==
    /\ Answered("track") /\ IsPattern
    /\ should_cache_broadcast(built.policy, last.path) = NoCache
    /\ last.priority >= built.policy.min_track_priority
    /\ last.result = NoCache

\* C4: a pattern-based policy answers should_keep_backup with false iff the age
\* limit is non-zero and age >= limit, or the count limit is non-zero and
\* count > limit.
C4_KeepBackup ==
    (Answered("backup") /\ IsPattern) =>
        LET self == built.policy IN
        last.result = FALSE <=>
            \/ self.backup_max_age_seconds # 0
               /\ last.age_seconds >= self.backup_max_age_seconds
            \/ self.backup_max_count # 0
               /\ last.backup_count > self.backup_max_count

\* the age equals the age limit, the count is within its limit: evicted
C4_Witness ==
    /\ Answered("backup") /\ IsPattern
    /\ built.policy.backup_max_age_seconds > 0
    /\ last.age_seconds = built.policy.backup_max_age_seconds
    /\ built.policy.backup_max_count > 0
    /\ last.backup_count = built.policy.backup_max_count
    /\ last.result = FALSE

\* C5: a pattern-based policy answers a frame query with NoCache iff
\* max_frame_size_bytes is non-zero and the size is strictly greater; nothing
\* else in the policy plays a part.
C5_FrameDecision ==
    (Answered("frame") /\ IsPattern) =>
        /\ last.result \in {Cache, NoCache}
        /\ last.result = NoCache <=>
              /\ built.policy.max_frame_size_bytes # 0
              /\ last.frame_size > built.policy.max_frame_size_bytes

\* a frame exactly at a non-zero limit, in a policy that rejects broadcasts
C5_Witness ==
    /\ Answered("frame") /\ IsPattern
    /\ built.policy.max_frame_size_bytes > 0
    /\ last.frame_size = built.policy.max_frame_size_bytes
    /\ built.policy.exclude_patterns # <<>>
    /\ last.result = Cache

\* C9: a pattern-based policy answers a group query with NoCache iff the
\* estimated size is present, max_frame_size_bytes is non-zero and the size is
\* strictly greater; the sequence and the group limits play no part.
C9_GroupDecision ==
    (Answered("group") /\ IsPattern) =>
        /\ last.result \in {Cache, NoCache}
        /\ last.result = NoCache <=>
              /\ last.estimated_size # <<>>
              /\ built.policy.max_frame_size_bytes # 0
              /\ last.estimated_size[1] > built.policy.max_frame_size_bytes

\* a group without a size estimate under a frame limit and a frame-count limit
C9_Witness ==
    /\ Answered("group") /\ IsPattern
    /\ last.estimated_size = <<>>
    /\ built.policy.max_frame_size_bytes > 0
    /\ built.policy.max_frames_per_group > 0
    /\ built.policy.max_groups_per_track = 0
    /\ last.sequence > 0
    /\ last.result = Cache

\* C10: the always-cache variant answers Cache to every broadcast, track, group
\* and frame query and true to should_keep_backup; the never-cache variant
\* answers NoCache and false.
C10_ConstantVariants ==
    (pc = "answered" /\ built.policy.kind \in {"always", "never"}) =>
        last.result =
            IF built.policy.kind = "always"
            THEN (IF last.op = "backup" THEN TRUE ELSE Cache)
            ELSE (IF last.op = "backup" THEN FALSE ELSE NoCache)

\* the never-cache variant is asked about a backup of age and count zero
C10_Witness ==
    /\ Answered("backup")
    /\ built.policy.kind = "never"
    /\ last.age_seconds = 0 /\ last.backup_count = 0
    /\ last.result = FALSE

-----------------------------------------------------------------------------
(* Properties of build.                                                    *)

\* the answer of a policy to the query recorded in q
Ask(policy, q) ==
    CASE q.op = "broadcast" -> should_cache_broadcast(policy, q.path)
      [] q.op = "track" ->
            should_cache_track(policy, q.path, q.track_name, q.priority)
      [] q.op = "group" -> should_cache_group(policy, q.sequence, q.estimated_size)
      [] q.op = "frame" -> should_cache_frame(policy, q.frame_size)
      [] q.op = "backup" -> should_keep_backup(policy, q.age_seconds, q.backup_count)

IsShortcutConfig(config) ==
    /\ config.cache_enabled
    /\ config.broadcast.cache_patterns = <<MatchAll>>
    /\ config.broadcast.exclude_patterns = <<>>
    /\ config.track.min_priority = 0
    /\ config.broadcast.backup_max_age_seconds = 0
    /\ config.broadcast.backup_max_count = 0
    /\ config.limits.max_frame_size_bytes = 0

\* C6: for an enabled configuration with cache_patterns ["**"], no exclude
\* patterns and min_priority, backup age, backup count and frame size all 0,
\* build returns the always-cache variant, and every query of it answers what
\* the pattern-based variant constructed from the same configuration answers.
C6_ShortcutPreservesDecisions ==
    (pc # "config" /\ IsShortcutConfig(cfg)) =>
        /\ built.ok
        /\ built.policy = AlwaysCachePolicy
        /\ build_pattern_based(cfg).ok
        /\ pc = "answered" =>
              last.result = Ask(build_pattern_based(cfg).policy, last)

\* a shortcut configuration whose other fields are not the defaults
C6_Witness ==
    /\ Answered("track")
    /\ IsShortcutConfig(cfg)
    /\ cfg.group.max_groups_per_track = 0
    /\ cfg.group.max_frames_per_group = 1
    /\ cfg.limits.max_cache_size_bytes = 1
    /\ last.result = Cache

Malformed(config) ==
    \/ \E i \in DOMAIN config.broadcast.cache_patterns :
          ~Pattern_new(config.broadcast.cache_patterns[i]).ok
    \/ \E i \in DOMAIN config.broadcast.exclude_patterns :
          ~Pattern_new(config.broadcast.exclude_patterns[i]).ok

\* C7: with cache_enabled false, build succeeds whatever the other fields hold,
\* malformed pattern strings included, and the policy answers every query as
\* NeverCachePolicy does.
C7_DisabledIsNeverCache ==
    (pc # "config" /\ ~cfg.cache_enabled) =>
        /\ built.ok
        /\ pc # "failed"
        /\ pc = "answered" => last.result = Ask(NeverCachePolicy, last)

\* a disabled configuration with a malformed pattern and a non-zero threshold
C7_Witness ==
    /\ Answered("broadcast")
    /\ ~cfg.cache_enabled
    /\ Malformed(cfg)
    /\ cfg.track.min_priority > 0
    /\ last.result = NoCache

\* C8 as stated: a malformed include or exclude pattern in the configuration
\* makes build report an error and build no policy; a policy that was built
\* answers every query with a decision.
C8_Original ==
    (pc # "config") =>
        /\ Malformed(cfg) => (~built.ok /\ pc = "failed")
        /\ ~built.ok => Malformed(cfg)
        /\ pc = "answered" =>
              last.result \in (IF last.op = "backup" THEN BOOLEAN
                               ELSE {Cache, NoCache})

\* C8: with cache_enabled true, a malformed include or exclude pattern makes
\* build report an error and build no policy; build fails in no other case;
\* a policy that was built answers every query with a decision.
C8_BuildFailsOnlyOnEnabledMalformed ==
    (pc # "config") =>
        /\ (cfg.cache_enabled /\ Malformed(cfg)) => (built = [ok |-> FALSE])
        /\ ~built.ok => (cfg.cache_enabled /\ Malformed(cfg))
        /\ pc = "failed" <=> ~built.ok
        /\ pc = "answered" =>
              last.result \in (IF last.op = "backup" THEN BOOLEAN
                               ELSE {Cache, NoCache})

\* an enabled configuration whose only malformed pattern is an exclude pattern
C8_Witness ==
    /\ pc = "failed"
    /\ cfg.cache_enabled
    /\ \A i \in DOMAIN cfg.broadcast.cache_patterns :
          Pattern_new(cfg.broadcast.cache_patterns[i]).ok
    /\ Len(cfg.broadcast.exclude_patterns) = 2
    /\ Pattern_new(cfg.broadcast.exclude_patterns[1]).ok
    /\ ~Pattern_new(cfg.broadcast.exclude_patterns[2]).ok

====
